---- MODULE Spec2Model ----
(***************************************************************************)
(* A model of py2puml/puml_generator.py: the PlantUML script generators    *)
(* PUML_Generator and PUML_Generator_NS.                                   *)
(*                                                                         *)
(* Text is modelled character by character: a Python str is a sequence of  *)
(* one-character strings, so that split, splitext, indexing, substring     *)
(* tests and concatenation are computed, not assumed.  A stream (dest,     *)
(* footer_dest) is the sequence of the texts written to it, one element    *)
(* per print() call.                                                       *)
(***************************************************************************)
EXTENDS Integers, Sequences, FiniteSets, TLC

VARIABLES
    kind,               \* which class was instantiated
    config,             \* the ConfigParser handed to the constructor
    root,               \* PUML_Generator_NS.root
    dest,               \* primary stream
    footer_dest,        \* deferred footer stream
    in_footer,          \* self.in_footer
    sourcename,         \* self.sourcename: <<>> is None, <<s>> is the str s
    class_in_module,    \* self.class_in_module: dict name -> prefix
    inherit_relations,  \* self.inherit_relations: list of (base, derived)
    namespaces,         \* PUML_Generator_NS.namespaces
    pc,                 \* position of the driving caller
    fidx,               \* footer(): index of the next relation to print
    call,               \* the last handler called and its argument
    ncalls,             \* number of handler calls made so far
    mark,               \* lengths of the streams and lists before the last call
    curfile,            \* the file of the last start_file call: <<>> or <<f>>
    rendered,           \* set of <<classname, prefix>>: where classes were rendered
    late,               \* a class was rendered after an edge naming it as base
    fdef,               \* arglist(): the method descriptor object handed in
    ret                 \* arglist(): <<>> before the call, then the outcome

vars == <<kind, config, root, dest, footer_dest, in_footer, sourcename,
          class_in_module, inherit_relations, namespaces, pc, fidx, call,
          ncalls, mark, curfile, rendered, late, fdef, ret>>

-----------------------------------------------------------------------------
(* Bounds *)

MaxCalls == 4

MaxBases == 2

-----------------------------------------------------------------------------
(* str helpers *)

TAB == <<" ", " ">>

NL == <<"\n">>

SP == <<" ">>

RECURSIVE Join(_, _)
Join(ss, s) ==
    IF ss = <<>> THEN <<>>
    ELSE IF Len(ss) = 1 THEN ss[1]
    ELSE ss[1] \o s \o Join(Tail(ss), s)

RECURSIVE Concat(_)
Concat(ss) == IF ss = <<>> THEN <<>> ELSE ss[1] \o Concat(Tail(ss))

RECURSIVE Split(_, _)
Split(s, c) ==
    IF \A i \in 1..Len(s) : s[i] # c THEN <<s>>
    ELSE LET i == CHOOSE j \in 1..Len(s) :
                      s[j] = c /\ \A k \in 1..(j-1) : s[k] # c
         IN  <<SubSeq(s, 1, i-1)>> \o Split(SubSeq(s, i+1, Len(s)), c)

Contains(s, sub) ==
    \E i \in 0..(Len(s) - Len(sub)) : SubSeq(s, i+1, i+Len(sub)) = sub

RFind(s, c) ==
    IF \A i \in 1..Len(s) : s[i] # c THEN 0
    ELSE CHOOSE j \in 1..Len(s) : s[j] = c /\ \A k \in (j+1)..Len(s) : s[k] # c

RECURSIVE Repeat(_, _)
Repeat(s, n) == IF n <= 0 THEN <<>> ELSE s \o Repeat(s, n-1)

Last(s) == s[Len(s)]

Front(s) == SubSeq(s, 1, Len(s) - 1)

SelectNonEmpty(ss) == SelectSeq(ss, LAMBDA x : x # <<>>)

RECURSIVE CommonLen(_, _)
CommonLen(a, b) ==
    IF a = <<>> \/ b = <<>> THEN 0
    ELSE IF a[1] # b[1] THEN 0
    ELSE 1 + CommonLen(Tail(a), Tail(b))

(* os.path.relpath for normalised absolute POSIX paths *)
relpath(path, start) ==
    LET start_list == SelectNonEmpty(Split(start, "/"))
        path_list  == SelectNonEmpty(Split(path, "/"))
        i          == CommonLen(start_list, path_list)
        rel_list   == [k \in 1..(Len(start_list) - i) |-> <<".", ".">>]
                      \o SubSeq(path_list, i+1, Len(path_list))
    IN  IF rel_list = <<>> THEN <<".">> ELSE Join(rel_list, <<"/">>)

(* a variant that keeps the extension *)
splitext_root_keep(p) == p

(* os.path.splitext(p)[0] *)
splitext_root(p) ==
    LET sepIndex == RFind(p, "/")
        dotIndex == RFind(p, ".")
    IN  IF dotIndex > sepIndex
           /\ \E k \in (sepIndex+1)..(dotIndex-1) : p[k] # "."
        THEN SubSeq(p, 1, dotIndex - 1)
        ELSE p

-----------------------------------------------------------------------------
(* The generator object *)

Base == "PUML_Generator"

NS == "PUML_Generator_NS"

(* The fields of the object, gathered so that methods are functions of self *)
Self ==
    [dest |-> dest, footer_dest |-> footer_dest, in_footer |-> in_footer,
     sourcename |-> sourcename, class_in_module |-> class_in_module,
     inherit_relations |-> inherit_relations, namespaces |-> namespaces,
     exc |-> FALSE]

(* The configuration: present = FALSE is config=None; a key that is absent *)
(* carries the fallback of the accessor that reads it                      *)
NoConfig ==
    [present |-> FALSE, prolog |-> <<>>, epilog |-> <<>>,
     write_globals |-> FALSE, omit_self |-> FALSE,
     methods_write_arglist |-> TRUE, module_write_arglist |-> TRUE,
     methods_omit_defaults |-> FALSE, module_omit_defaults |-> FALSE,
     builtin_types |-> <<>>]

opt_globals == config.present /\ config.write_globals

opt_omit_self == config.present /\ config.omit_self

opt_write_arglist(section) ==
    \/ ~config.present
    \/ IF section = "methods" THEN config.methods_write_arglist
                              ELSE config.module_write_arglist

opt_omit_defaults(section) ==
    /\ config.present
    /\ IF section = "methods" THEN config.methods_omit_defaults
                              ELSE config.module_omit_defaults

opt_builtin_types == IF ~config.present THEN <<>> ELSE config.builtin_types

InList(x, l) == \E i \in 1..Len(l) : l[i] = x

(* print of the arguments: joined by a blank, then a newline *)
PUML_Generator_output(s, args) ==
    IF s.in_footer
    THEN [s EXCEPT !.footer_dest = Append(@, Join(args, SP) \o NL)]
    ELSE [s EXCEPT !.dest = Append(@, Join(args, SP) \o NL)]

PUML_Generator_NS_output(s, args) ==
    IF s.namespaces # <<>>
    THEN PUML_Generator_output(
             [s EXCEPT !.dest = Append(@, Repeat(TAB, Len(s.namespaces)))], args)
    ELSE PUML_Generator_output(s, args)

output(s, args) ==
    IF kind = NS THEN PUML_Generator_NS_output(s, args)
    ELSE PUML_Generator_output(s, args)

RECURSIVE pop_ns(_, _)
pop_ns(s, count) ==
    IF count <= 0 THEN s
    ELSE pop_ns(output([s EXCEPT !.namespaces = Front(@)], <<<<"}">>>>), count - 1)

NamespaceKw == <<"n", "a", "m", "e", "s", "p", "a", "c", "e", " ">>

push_ns(s, name) ==
    LET t == output(s, <<NamespaceKw \o name \o <<" ", "{">>>>)
    IN  [t EXCEPT !.namespaces = Append(@, name)]

RECURSIVE push_all(_, _)
push_all(s, names) ==
    IF names = <<>> THEN s ELSE push_all(push_ns(s, names[1]), Tail(names))

PUML_Generator_start_file(s, name) == [s EXCEPT !.sourcename = <<name>>]

(* a variant that finds no common path *)
common_path_none(open, new, n) == n

(* the loop of start_file that determines the common path *)
RECURSIVE common_path(_, _, _)
common_path(open, new, n) ==
    IF open = <<>> THEN n
    ELSE IF n >= Len(new) THEN n
    ELSE IF open[1] # new[n + 1] THEN n
    ELSE common_path(Tail(open), new, n + 1)

PUML_Generator_NS_start_file(s, name) ==
    LET s1    == PUML_Generator_start_file(s, name)
        names == splitext_root(relpath(name, root))
        nsp   == Split(names, "/")
        n     == common_path(s1.namespaces, nsp, 0)
        s2    == pop_ns(s1, Len(s1.namespaces) - n)
    IN  push_all(s2, SubSeq(nsp, n + 1, Len(nsp)))

start_file(s, name) ==
    IF kind = NS THEN PUML_Generator_NS_start_file(s, name)
    ELSE PUML_Generator_start_file(s, name)

end_file(s) == [s EXCEPT !.sourcename = <<>>]

header(s) ==
    IF config.present /\ config.prolog # <<>>
    THEN output(s, <<config.prolog \o NL>>)
    ELSE s

-----------------------------------------------------------------------------
(* The str literals of the source *)

S_class == <<"c", "l", "a", "s", "s">>

S_abstract_class == <<"a", "b", "s", "t", "r", "a", "c", "t", " ", "c", "l", "a", "s", "s">>

S_enum == <<"e", "n", "u", "m">>

S_interface == <<"i", "n", "t", "e", "r", "f", "a", "c", "e">>

S_object == <<"o", "b", "j", "e", "c", "t">>

S_ABC == <<"A", "B", "C">>

S_Enum == <<"E", "n", "u", "m">>

S_static_marker == <<"{", "s", "t", "a", "t", "i", "c", "}">>

S_property == <<"p", "r", "o", "p", "e", "r", "t", "y">>

S_setter == <<"s", "e", "t", "t", "e", "r">>

S_staticmethod == <<"s", "t", "a", "t", "i", "c", "m", "e", "t", "h", "o", "d">>

S_abstractmethod == <<"a", "b", "s", "t", "r", "a", "c", "t", "m", "e", "t", "h", "o", "d">>

S_static == <<"s", "t", "a", "t", "i", "c">>

S_abstract == <<"a", "b", "s", "t", "r", "a", "c", "t">>

S_init == <<"_", "_", "i", "n", "i", "t", "_", "_">>

S_None == <<"N", "o", "n", "e">>

S_self == <<"s", "e", "l", "f">>

S_arrow == <<"<", "|", "-", "-">>

S_module == <<"_", "_", "m", "o", "d", "u", "l", "e", "_", "_">>

-----------------------------------------------------------------------------
(* Descriptors handed in by the tree visitor                                *)
(*   classinfo: [classname, bases, classvars, members, methods]             *)
(*   codeinfo:  [variables, functions]                                      *)
(*   method:    [name, decorator_list, args, returns]                       *)
(*   args:      [args, defaults]: the names, and the source text of the     *)
(*              defaults of the last Len(defaults) names                     *)
(*   decorator: [type, value, name]: an ast.Name has the id in name, an      *)
(*              ast.Attribute has the attr in name and its value's source    *)
(*   returns:   <<>> is None, <<t>> the source text t of the annotation      *)
(* Expressions are held as the text astor.to_source(...).rstrip() gives.     *)

(* classinfo.visibility / codeinfo.visibility *)
visibility(name) ==
    IF Len(name) >= 2 /\ name[1] = "_" /\ name[2] = "_" THEN <<"-">>
    ELSE IF Len(name) >= 1 /\ name[1] = "_" THEN <<"#">>
    ELSE <<"+">>

(* astor.to_source of a decorator expression *)
dec_source(dec) ==
    IF dec.type = "Attribute" THEN dec.value \o <<".">> \o dec.name ELSE dec.name

_deco_marker(dec) ==
    IF dec.type = "Attribute" THEN <<"@">> \o dec_source(dec)
    ELSE IF dec.name = S_staticmethod THEN S_static
    ELSE IF dec.name = S_abstractmethod THEN S_abstract
    ELSE <<"@">> \o dec.name

(* a variant that matches as has_decorator does *)
is_static_method_any(meth) ==
    \E i \in 1..Len(meth.decorator_list) :
        Contains(meth.decorator_list[i].name, S_staticmethod)

is_static_method(meth) ==
    \E i \in 1..Len(meth.decorator_list) :
        /\ meth.decorator_list[i].type = "Name"
        /\ meth.decorator_list[i].name = S_staticmethod

has_decorator(meth, name) ==
    \E i \in 1..Len(meth.decorator_list) :
        Contains(meth.decorator_list[i].name, name)

(* astor.to_source of an ast.arguments: names separated by ", ", the last *)
(* Len(defaults) of them followed by = and the default                     *)
args_source(a) ==
    LET pad == Len(a.args) - Len(a.defaults)
        one(i) == IF i > pad THEN a.args[i] \o <<"=">> \o a.defaults[i - pad]
                  ELSE a.args[i]
    IN  Join([i \in 1..Len(a.args) |-> one(i)], <<",", " ">>)

(* arglist: the outcome and the descriptor object as the call leaves it. *)
(* The work is done on a deep copy, so the object is left as it was; an  *)
(* empty args.args makes pop(0) raise IndexError.  The descriptors here  *)
(* have no keyword-only parameters, so kw_defaults is always empty.      *)
arglist(fd, ismethod) ==
    LET section == IF ismethod THEN "methods" ELSE "module"
        drop    == ismethod /\ opt_omit_self /\ ~is_static_method(fd)
        args0   == fd.args
        args1   == IF drop THEN [args0 EXCEPT !.args = Tail(@)] ELSE args0
        args2   == IF opt_omit_defaults(section)
                   THEN [args1 EXCEPT !.defaults = <<>>] ELSE args1
    IN  IF ~opt_write_arglist(section)
        THEN [exc |-> FALSE, warned |-> FALSE, val |-> <<>>, fdef |-> fd]
        ELSE IF drop /\ args0.args = <<>>
        THEN [exc |-> TRUE, warned |-> FALSE, val |-> <<>>, fdef |-> fd]
        ELSE [exc |-> FALSE,
              warned |-> drop /\ args0.args[1] # S_self,
              val |-> args_source(args2), fdef |-> fd]

-----------------------------------------------------------------------------
(* print_classinfo *)

(* a variant in which an ordinary base resets the prefix *)
RECURSIVE base_prefix_reset(_, _)
base_prefix_reset(bases, prefix) ==
    IF bases = <<>> THEN prefix
    ELSE LET expr == bases[1]
         IN  IF expr = S_object THEN base_prefix_reset(Tail(bases), prefix)
             ELSE IF expr = S_ABC
             THEN base_prefix_reset(Tail(bases), S_abstract_class)
             ELSE IF expr = S_Enum THEN base_prefix_reset(Tail(bases), S_enum)
             ELSE base_prefix_reset(Tail(bases), S_class)

(* the loop over classinfo.bases: the prefix it leaves, from prefix *)
RECURSIVE base_prefix(_, _)
base_prefix(bases, prefix) ==
    IF bases = <<>> THEN prefix
    ELSE LET expr == bases[1]
         IN  IF expr = S_object THEN base_prefix(Tail(bases), prefix)
             ELSE IF expr = S_ABC THEN base_prefix(Tail(bases), S_abstract_class)
             ELSE IF expr = S_Enum THEN base_prefix(Tail(bases), S_enum)
             ELSE base_prefix(Tail(bases), prefix)

(* a variant that records an edge for ABC and Enum *)
RECURSIVE base_relations_abc(_, _)
base_relations_abc(bases, classname) ==
    IF bases = <<>> THEN <<>>
    ELSE LET expr == bases[1]
         IN  IF expr = S_object
             THEN base_relations_abc(Tail(bases), classname)
             ELSE <<<<Last(Split(expr, ".")), classname>>>>
                  \o base_relations_abc(Tail(bases), classname)

(* the loop over classinfo.bases: the relations it appends *)
RECURSIVE base_relations(_, _)
base_relations(bases, classname) ==
    IF bases = <<>> THEN <<>>
    ELSE LET expr == bases[1]
         IN  IF expr = S_object \/ expr = S_ABC \/ expr = S_Enum
             THEN base_relations(Tail(bases), classname)
             ELSE <<<<Last(Split(expr, ".")), classname>>>>
                  \o base_relations(Tail(bases), classname)

(* a variant that looks for the I anywhere in the name *)
class_prefix_any(classinfo) ==
    IF Contains(classinfo.classname, <<"I">>) THEN S_interface
    ELSE base_prefix(classinfo.bases, S_class)

class_prefix(classinfo) ==
    IF classinfo.classname[1] = "I" THEN S_interface
    ELSE base_prefix(classinfo.bases, S_class)

RECURSIVE print_classvars(_, _)
print_classvars(s, ms) ==
    IF ms = <<>> THEN s
    ELSE print_classvars(
             output(s, <<TAB \o S_static_marker, visibility(ms[1]) \o ms[1]>>),
             Tail(ms))

RECURSIVE print_members(_, _)
print_members(s, ms) ==
    IF ms = <<>> THEN s
    ELSE print_members(output(s, <<TAB \o visibility(ms[1]) \o ms[1]>>), Tail(ms))

returns_source(m) == IF m.returns # <<>> THEN m.returns[1] ELSE S_None

(* first pass over classinfo.methods: properties as typed fields *)
RECURSIVE print_properties(_, _)
print_properties(s, ms) ==
    IF ms = <<>> THEN s
    ELSE LET m == ms[1]
         IN  IF has_decorator(m, S_property)
                /\ InList(returns_source(m), opt_builtin_types)
             THEN print_properties(
                      output(s, <<TAB \o <<"+">> \o m.name \o <<" ", ":", " ">>
                                  \o returns_source(m)>>),
                      Tail(ms))
             ELSE print_properties(s, Tail(ms))

deco_markers(m) ==
    Join([i \in 1..Len(m.decorator_list) |->
              <<"{">> \o _deco_marker(m.decorator_list[i]) \o <<"}">>],
         <<",">>)

(* a variant that skips the properties only *)
RECURSIVE print_methods_setter(_, _, _)
print_methods_setter(s, classname, ms) ==
    IF ms = <<>> THEN s
    ELSE LET m == ms[1]
             a == arglist(m, TRUE)
         IN  IF has_decorator(m, S_property)
             THEN print_methods_setter(s, classname, Tail(ms))
             ELSE IF a.exc THEN [s EXCEPT !.exc = TRUE]
             ELSE IF m.name = S_init
             THEN print_methods_setter(
                      output(s, <<TAB \o <<"+">> \o classname
                                  \o <<"(">> \o a.val \o <<")">>>>),
                      classname, Tail(ms))
             ELSE print_methods_setter(
                      output(s, <<TAB \o visibility(m.name) \o m.name
                                  \o <<"(">> \o a.val \o <<")">>
                                  \o deco_markers(m) \o <<" ", ":", " ">>
                                  \o returns_source(m)>>),
                      classname, Tail(ms))

(* second pass over classinfo.methods; an exception of arglist ends it *)
RECURSIVE print_methods(_, _, _)
print_methods(s, classname, ms) ==
    IF ms = <<>> THEN s
    ELSE LET m == ms[1]
             a == arglist(m, TRUE)
         IN  IF has_decorator(m, S_property) \/ has_decorator(m, S_setter)
             THEN print_methods(s, classname, Tail(ms))
             ELSE IF a.exc THEN [s EXCEPT !.exc = TRUE]
             ELSE IF m.name = S_init
             THEN print_methods(
                      output(s, <<TAB \o <<"+">> \o classname
                                  \o <<"(">> \o a.val \o <<")">>>>),
                      classname, Tail(ms))
             ELSE print_methods(
                      output(s, <<TAB \o visibility(m.name) \o m.name
                                  \o <<"(">> \o a.val \o <<")">>
                                  \o deco_markers(m) \o <<" ", ":", " ">>
                                  \o returns_source(m)>>),
                      classname, Tail(ms))

PUML_Generator_print_classinfo(s, classinfo) ==
    LET s1 == [s EXCEPT !.inherit_relations =
                   @ \o base_relations(classinfo.bases, classinfo.classname)]
        s2 == output(s1, <<class_prefix(classinfo), classinfo.classname, <<"{">>>>)
        s3 == print_classvars(s2, classinfo.classvars)
        s4 == print_members(s3, classinfo.members)
        s5 == print_properties(s4, classinfo.methods)
        s6 == print_methods(s5, classinfo.classname, classinfo.methods)
    IN  IF s6.exc THEN s6 ELSE output(s6, <<<<"}", "\n">>>>)

(* full_ns: every open namespace followed by a dot *)
full_ns(nsp) == Concat([i \in 1..Len(nsp) |-> nsp[i] \o <<".">>])

DictSet(d, k, v) == [x \in (DOMAIN d) \cup {k} |-> IF x = k THEN v ELSE d[x]]

PUML_Generator_NS_print_classinfo(s, classinfo) ==
    PUML_Generator_print_classinfo(
        [s EXCEPT !.class_in_module =
             DictSet(@, classinfo.classname, full_ns(s.namespaces))],
        classinfo)

print_classinfo(s, classinfo) ==
    IF kind = NS THEN PUML_Generator_NS_print_classinfo(s, classinfo)
    ELSE PUML_Generator_print_classinfo(s, classinfo)

-----------------------------------------------------------------------------
(* print_codeinfo *)

RECURSIVE print_variables(_, _)
print_variables(s, names) ==
    IF names = <<>> THEN s
    ELSE print_variables(output(s, <<TAB \o visibility(names[1]) \o names[1]>>),
                         Tail(names))

RECURSIVE print_functions(_, _)
print_functions(s, fs) ==
    IF fs = <<>> THEN s
    ELSE LET f == fs[1]
             a == arglist(f, FALSE)
         IN  print_functions(
                 output(s, <<TAB \o visibility(f.name) \o f.name
                             \o <<"(">> \o a.val \o <<")">>>>),
                 Tail(fs))

print_codeinfo(s, codeinfo) ==
    LET s1 == output(s, <<S_class, S_module, <<"{">>>>)
        s2 == print_variables(s1, codeinfo.variables)
        s3 == print_functions(s2, codeinfo.functions)
    IN  output(s3, <<<<"}", "\n">>>>)

-----------------------------------------------------------------------------
(* footer, in the three parts of its control flow *)

(* a variant that leaves the namespaces open *)
footer_enter_open(s) == [s EXCEPT !.in_footer = TRUE]

(* a variant that enters the deferred mode before it closes the namespaces *)
footer_enter_early(s) ==
    IF kind = NS THEN pop_ns([s EXCEPT !.in_footer = TRUE], Len(s.namespaces))
    ELSE [s EXCEPT !.in_footer = TRUE]

(* PUML_Generator_NS.footer closes the namespaces, then PUML_Generator.footer *)
(* enters the deferred mode                                                  *)
footer_enter(s) ==
    LET s1 == IF kind = NS THEN pop_ns(s, Len(s.namespaces)) ELSE s
    IN  [s1 EXCEPT !.in_footer = TRUE]

(* a variant that never qualifies *)
fmt_name_plain(cim, name) == name

fmt_name(cim, name) == IF name \in DOMAIN cim THEN cim[name] \o name ELSE name

(* one iteration of the loop over inherit_relations *)
footer_relation(s, rel) ==
    output(s, <<fmt_name(s.class_in_module, rel[1]), S_arrow,
                fmt_name(s.class_in_module, rel[2])>>)

(* the epilog, then the deferred mode is left *)
footer_leave(s) ==
    LET s1 == IF config.present /\ config.epilog # <<>>
              THEN output(s, <<config.epilog \o NL>>)
              ELSE s
    IN  [s1 EXCEPT !.in_footer = FALSE]

-----------------------------------------------------------------------------
(* Inputs *)

Root == <<"/", "r">>

(* Source files under the root, by directory names, stem and extension *)
File_abc == [dirs |-> <<<<"a">>, <<"b">>>>, stem |-> <<"c">>, ext |-> <<"p", "y">>]

File_abd == [dirs |-> <<<<"a">>, <<"b">>>>, stem |-> <<"d">>, ext |-> <<"p", "y">>]

File_ab == [dirs |-> <<<<"a">>>>, stem |-> <<"b">>, ext |-> <<"p", "y">>]

File_f == [dirs |-> <<>>, stem |-> <<"f">>, ext |-> <<"p", "y">>]

File_dotdir == [dirs |-> <<<<"a", ".", "x">>>>, stem |-> <<".", "g">>, ext |-> <<>>]

Files == {File_abc, File_abd, File_ab, File_f, File_dotdir}

(* the path of a file as the caller hands it to start_file *)
FilePath(f) ==
    Root \o <<"/">> \o Join(f.dirs \o <<f.stem>>, <<"/">>)
    \o (IF f.ext = <<>> THEN <<>> ELSE <<".">> \o f.ext)

(* the namespaces a file lies in: its directories, then its module name *)
FileSegments(f) == f.dirs \o <<f.stem>>

Dec_property == [type |-> "Name", value |-> <<>>, name |-> <<"p", "r", "o", "p", "e", "r", "t", "y">>]

Dec_staticmethod == [type |-> "Name", value |-> <<>>, name |-> <<"s", "t", "a", "t", "i", "c", "m", "e", "t", "h", "o", "d">>]

Dec_setter == [type |-> "Attribute", value |-> <<"p">>, name |-> <<"s", "e", "t", "t", "e", "r">>]

Dec_attr_staticmethod == [type |-> "Attribute", value |-> <<"x">>, name |-> <<"s", "t", "a", "t", "i", "c", "m", "e", "t", "h", "o", "d">>]

Dec_abstractmethod == [type |-> "Name", value |-> <<>>, name |-> <<"a", "b", "s", "t", "r", "a", "c", "t", "m", "e", "t", "h", "o", "d">>]

Dec_cached_property == [type |-> "Name", value |-> <<>>, name |-> <<"c", "a", "c", "h", "e", "d", "_", "p", "r", "o", "p", "e", "r", "t", "y">>]

M_plain == 
    [name |-> <<"f">>, decorator_list |-> <<Dec_abstractmethod>>,
     args |-> [args |-> <<<<"s", "e", "l", "f">>, <<"x">>>>, defaults |-> <<<<"1">>>>], returns |-> <<<<"i", "n", "t">>>>]

M_prop_int == 
    [name |-> <<"p">>, decorator_list |-> <<Dec_property>>,
     args |-> [args |-> <<<<"s", "e", "l", "f">>>>, defaults |-> <<>>], returns |-> <<<<"i", "n", "t">>>>]

M_prop_none == 
    [name |-> <<"q">>, decorator_list |-> <<Dec_property>>,
     args |-> [args |-> <<<<"s", "e", "l", "f">>>>, defaults |-> <<>>], returns |-> <<>>]

M_setter == 
    [name |-> <<"p">>, decorator_list |-> <<Dec_setter>>,
     args |-> [args |-> <<<<"s", "e", "l", "f">>, <<"v">>>>, defaults |-> <<>>], returns |-> <<>>]

M_static == 
    [name |-> <<"s">>, decorator_list |-> <<Dec_staticmethod>>,
     args |-> [args |-> <<<<"x">>>>, defaults |-> <<<<"1">>>>], returns |-> <<>>]

M_init == 
    [name |-> <<"_", "_", "i", "n", "i", "t", "_", "_">>, decorator_list |-> <<>>,
     args |-> [args |-> <<<<"m", "e">>, <<"y">>>>, defaults |-> <<>>], returns |-> <<>>]

M_noargs == 
    [name |-> <<"g">>, decorator_list |-> <<>>,
     args |-> [args |-> <<>>, defaults |-> <<>>], returns |-> <<>>]

M_cached == 
    [name |-> <<"c">>, decorator_list |-> <<Dec_cached_property>>,
     args |-> [args |-> <<<<"s", "e", "l", "f">>>>, defaults |-> <<>>], returns |-> <<<<"i", "n", "t">>>>]

(* The classes the tree visitor reports during a run *)
Class_A == 
    [classname |-> <<"A">>, bases |-> <<<<"B">>>>, classvars |-> <<<<"k">>>>,
     members |-> <<<<"_", "x">>>>, methods |-> <<>>]

Class_B == 
    [classname |-> <<"B">>, bases |-> <<<<"A", "B", "C">>>>, classvars |-> <<>>,
     members |-> <<>>, methods |-> <<>>]

Class_C == 
    [classname |-> <<"C">>, bases |-> <<<<"m", ".", "A">>, <<"o", "b", "j", "e", "c", "t">>, <<"B">>>>, classvars |-> <<>>,
     members |-> <<>>, methods |-> <<M_plain>>]

RunClasses == {Class_A, Class_B, Class_C}

Code_1 ==
    [variables |-> <<<<"v">>>>, functions |-> <<M_static>>]

RunCodes == {Code_1}

RunConfig ==
    [NoConfig EXCEPT !.present = TRUE, !.prolog = <<"P">>,
                     !.epilog = <<"E">>, !.write_globals = TRUE]

RunConfigs == {NoConfig, RunConfig}

-----------------------------------------------------------------------------
(* The run: construction, then the calls of the driving caller *)

Constructed ==
    /\ root = Root
    /\ dest = <<>>
    /\ footer_dest = <<>>
    /\ in_footer = FALSE
    /\ sourcename = <<>>
    /\ class_in_module = <<>>
    /\ inherit_relations = <<>>
    /\ namespaces = <<>>
    /\ pc = "run"
    /\ fidx = 0
    /\ call = [op |-> "__init__", arg |-> <<>>]
    /\ ncalls = 0
    /\ mark = [dest |-> 0, footer_dest |-> 0, relations |-> 0, namespaces |-> <<>>]
    /\ curfile = <<>>
    /\ rendered = {}
    /\ late = FALSE
    /\ ret = <<>>

Init ==
    /\ kind \in {Base, NS}
    /\ config \in RunConfigs
    /\ fdef = <<>>
    /\ Constructed

(* the object takes the fields of s *)
Store(s) ==
    /\ dest' = s.dest
    /\ footer_dest' = s.footer_dest
    /\ in_footer' = s.in_footer
    /\ sourcename' = s.sourcename
    /\ class_in_module' = s.class_in_module
    /\ inherit_relations' = s.inherit_relations
    /\ namespaces' = s.namespaces

Called(op, arg) ==
    /\ call' = [op |-> op, arg |-> arg]
    /\ ncalls' = ncalls + 1
    /\ mark' = [dest |-> Len(dest), footer_dest |-> Len(footer_dest),
                relations |-> Len(inherit_relations), namespaces |-> namespaces]

Header ==
    /\ pc = "run"
    /\ ncalls = 0
    /\ Store(header(Self))
    /\ Called("header", <<>>)
    /\ UNCHANGED <<kind, config, root, pc, fidx, curfile, rendered, late, fdef, ret>>

StartFile(f) ==
    /\ pc = "run"
    /\ ncalls < MaxCalls
    /\ Store(start_file(Self, FilePath(f)))
    /\ Called("start_file", f)
    /\ curfile' = <<f>>
    /\ UNCHANGED <<kind, config, root, pc, fidx, rendered, late, fdef, ret>>

EndFile ==
    /\ pc = "run"
    /\ ncalls < MaxCalls
    /\ sourcename # <<>>
    /\ Store(end_file(Self))
    /\ Called("end_file", <<>>)
    /\ UNCHANGED <<kind, config, root, pc, fidx, curfile, rendered, late, fdef, ret>>

(* the prefix of the namespaces the current file lies in *)
FilePrefix ==
    IF kind = NS /\ curfile # <<>>
    THEN Concat([i \in 1..Len(FileSegments(curfile[1])) |->
                     FileSegments(curfile[1])[i] \o <<".">>])
    ELSE <<>>

PrintClassinfo(c) ==
    /\ pc = "run"
    /\ ncalls < MaxCalls
    /\ sourcename # <<>>
    /\ LET s == print_classinfo(Self, c)
       IN  /\ Store(s)
           /\ pc' = IF s.exc THEN "crashed" ELSE pc
    /\ Called("print_classinfo", c)
    /\ rendered' = rendered \cup {<<c.classname, FilePrefix>>}
    /\ late' = (late \/ \E i \in 1..Len(inherit_relations) :
                            inherit_relations[i][1] = c.classname)
    /\ UNCHANGED <<kind, config, root, fidx, curfile, fdef, ret>>

(* the assert on opt_globals ends the run when the option is off *)
PrintCodeinfo(ci) ==
    /\ pc = "run"
    /\ ncalls < MaxCalls
    /\ sourcename # <<>>
    /\ IF opt_globals
       THEN Store(print_codeinfo(Self, ci)) /\ pc' = pc
       ELSE Store(Self) /\ pc' = "crashed"
    /\ Called("print_codeinfo", ci)
    /\ UNCHANGED <<kind, config, root, fidx, curfile, rendered, late, fdef, ret>>

FooterEnter ==
    /\ pc = "run"
    /\ Store(footer_enter(Self))
    /\ Called("footer", <<>>)
    /\ pc' = "footer"
    /\ fidx' = 1
    /\ UNCHANGED <<kind, config, root, curfile, rendered, late, fdef, ret>>

FooterRelation ==
    /\ pc = "footer"
    /\ fidx <= Len(inherit_relations)
    /\ Store(footer_relation(Self, inherit_relations[fidx]))
    /\ fidx' = fidx + 1
    /\ UNCHANGED <<kind, config, root, pc, call, ncalls, mark, curfile,
                   rendered, late, fdef, ret>>

FooterLeave ==
    /\ pc = "footer"
    /\ fidx > Len(inherit_relations)
    /\ Store(footer_leave(Self))
    /\ pc' = "done"
    /\ UNCHANGED <<kind, config, root, fidx, call, ncalls, mark, curfile,
                   rendered, late, fdef, ret>>

Next ==
    \/ Header
    \/ \E f \in Files : StartFile(f)
    \/ EndFile
    \/ \E c \in RunClasses : PrintClassinfo(c)
    \/ \E ci \in RunCodes : PrintCodeinfo(ci)
    \/ FooterEnter
    \/ FooterRelation
    \/ FooterLeave

Spec == Init /\ [][Next]_vars

-----------------------------------------------------------------------------
(* Reading the streams *)

(* what a print of an indentation leaves: blanks, no newline *)
IsIndent(x) == x # <<>> /\ \A i \in 1..Len(x) : x[i] = " "

Lines(stream) == SelectSeq(stream, LAMBDA x : ~IsIndent(x))

OpenMarker(name) == NamespaceKw \o name \o <<" ", "{", "\n">>

IsOpenMarker(x) ==
    /\ Len(x) > Len(NamespaceKw) + 3
    /\ SubSeq(x, 1, Len(NamespaceKw)) = NamespaceKw
    /\ SubSeq(x, Len(x) - 2, Len(x)) = <<" ", "{", "\n">>

CloseMarker == <<"}", "\n">>

IsArrowLine(x) == Contains(x, S_arrow)

Count(stream, P(_)) == Len(SelectSeq(stream, P))

Opened == Count(dest, IsOpenMarker)

Closed == Count(dest, LAMBDA x : x = CloseMarker)

(* the length of the longest common prefix of two sequences *)
LongestCommonPrefix(a, b) ==
    CHOOSE k \in 0..Len(a) :
        /\ k <= Len(b)
        /\ SubSeq(a, 1, k) = SubSeq(b, 1, k)
        /\ (k = Len(a) \/ k = Len(b) \/ a[k + 1] # b[k + 1])

IsCall(op) == ncalls' = ncalls + 1 /\ call'.op = op

-----------------------------------------------------------------------------
(* C1: in PUML_Generator_NS, from the return of start_file(p) until the next *)
(* start_file or footer call, the namespace stack is the sequence of path    *)
(* segments of p relative to the root, extension stripped; before the first  *)
(* start_file it is empty.  print_classinfo, print_codeinfo and end_file     *)
(* therefore leave it as it is.                                              *)
C1_StackIsFileSegments ==
    (kind = NS /\ pc \in {"run", "crashed"}) =>
        namespaces = IF curfile = <<>> THEN <<>> ELSE FileSegments(curfile[1])

C1_Witness ==
    /\ kind = NS
    /\ pc = "run"
    /\ call.op = "end_file"
    /\ curfile = <<File_abd>>
    /\ Closed >= 1
    /\ rendered # {}

(* C2: a start_file of PUML_Generator_NS, with n the length of the longest   *)
(* common prefix of the open stack and the segments of the new file, writes  *)
(* exactly depth - n closing markers and then one opening marker per segment *)
(* from index n on, in order, and nothing else but their indentation.        *)
C2_StartFileMarkers ==
    [][(kind = NS /\ IsCall("start_file")) =>
          LET new == FileSegments(call'.arg)
              n   == LongestCommonPrefix(namespaces, new)
          IN  /\ Len(dest') >= Len(dest)
              /\ SubSeq(dest', 1, Len(dest)) = dest
              /\ Lines(SubSeq(dest', Len(dest) + 1, Len(dest')))
                     = [i \in 1..(Len(namespaces) - n) |-> CloseMarker]
                       \o [i \in 1..(Len(new) - n) |-> OpenMarker(new[n + i])]
              /\ footer_dest' = footer_dest]_vars

C2_Witness ==
    /\ kind = NS
    /\ call.op = "start_file"
    /\ call.arg = File_abd
    /\ mark.namespaces = FileSegments(File_abc)
    /\ Len(dest) > mark.dest

(* C3: the opening markers written minus the closing markers written is the  *)
(* depth of the stack in every state; after footer the stack is empty and    *)
(* as many closing as opening markers were written.                          *)
C3_MarkersBalanced ==
    /\ Opened - Closed = Len(namespaces)
    /\ pc = "done" => (namespaces = <<>> /\ Opened = Closed)

C3_Witness ==
    /\ kind = NS
    /\ pc = "done"
    /\ Opened >= 4
    /\ Closed >= 4

(* the prefixes under which a class of the name was rendered; the empty one *)
(* when it never was                                                        *)
PrefixesOf(name) ==
    IF \E r \in rendered : r[1] = name
    THEN {r[2] : r \in {q \in rendered : q[1] = name}}
    ELSE {<<>>}

ArrowLine(base, derived) ==
    base \o <<" ">> \o S_arrow \o <<" ">> \o derived \o NL

(* C4: when footer of PUML_Generator_NS has returned, the line of every      *)
(* recorded edge carries on each endpoint the namespace prefix under which   *)
(* the class of that name was rendered, whether before or after the edge was *)
(* recorded, and no prefix on an endpoint that was never rendered.           *)
C4_QualifiedAtFooter ==
    (kind = NS /\ pc = "done") =>
        \A i \in 1..Len(inherit_relations) :
            /\ i <= Len(footer_dest)
            /\ \E pb \in PrefixesOf(inherit_relations[i][1]) :
               \E pd \in PrefixesOf(inherit_relations[i][2]) :
                   footer_dest[i] = ArrowLine(pb \o inherit_relations[i][1],
                                              pd \o inherit_relations[i][2])

C4_Witness ==
    /\ kind = NS
    /\ pc = "done"
    /\ late
    /\ \E i \in 1..Len(inherit_relations) :
           /\ Cardinality(PrefixesOf(inherit_relations[i][1])) = 1
           /\ PrefixesOf(inherit_relations[i][1]) # {<<>>}
           /\ PrefixesOf(inherit_relations[i][1])
                  # PrefixesOf(inherit_relations[i][2])

C5_Streams ==
    /\ in_footer => pc = "footer"
    /\ \A i \in 1..Len(footer_dest) :
           \/ IsArrowLine(footer_dest[i])
           \/ (config.present /\ footer_dest[i] = config.epilog \o NL \o NL)
    /\ \A i \in 1..Len(dest) : ~IsArrowLine(dest[i])
    /\ (pc = "done" /\ config.present /\ config.epilog # <<>>) =>
           (footer_dest # <<>> /\ Last(footer_dest) = config.epilog \o NL \o NL)

C5_Order ==
    /\ footer_dest' # footer_dest => (pc = "footer" /\ in_footer)
    /\ dest' # dest => (~in_footer /\ footer_dest = <<>> /\ footer_dest' = <<>>)

(* C5: the inheritance lines and the epilog go to the footer stream only and *)
(* only inside footer; the primary stream, which takes every block and every *)
(* namespace marker, is written only before the first of them; the deferred  *)
(* flag is set only inside footer and is off again when footer has returned. *)
C5_DeferredFooter == []C5_Streams /\ [][C5_Order]_vars

C5_Witness ==
    /\ kind = NS
    /\ pc = "done"
    /\ Len(footer_dest) >= 2
    /\ Closed >= 2
    /\ ~in_footer

(* the text after the last dot *)
LastSegment(expr) == SubSeq(expr, RFind(expr, ".") + 1, Len(expr))

IsMarkerBase(expr) == expr \in {S_object, S_ABC, S_Enum}

ExpectedEdges(c) ==
    LET bs == SelectSeq(c.bases, LAMBDA b : ~IsMarkerBase(b))
    IN  [i \in 1..Len(bs) |-> <<LastSegment(bs[i]), c.classname>>]

C8_Recorded ==
    IF IsCall("print_classinfo")
    THEN inherit_relations' = inherit_relations \o ExpectedEdges(call'.arg)
    ELSE inherit_relations' = inherit_relations

C8_Flushed ==
    pc = "done" =>
        /\ Count(footer_dest, IsArrowLine) = Len(inherit_relations)
        /\ \A i \in 1..Len(inherit_relations) :
               \E pb \in PrefixesOf(inherit_relations[i][1]) :
               \E pd \in PrefixesOf(inherit_relations[i][2]) :
                   footer_dest[i] = ArrowLine(pb \o inherit_relations[i][1],
                                              pd \o inherit_relations[i][2])
        /\ kind = Base =>
               \A i \in 1..Len(inherit_relations) :
                   footer_dest[i] = ArrowLine(inherit_relations[i][1],
                                              inherit_relations[i][2])

(* C8: print_classinfo appends one edge per base that is none of object,     *)
(* ABC, Enum, in declared order, from the last dotted segment of the base to *)
(* the class name, and none for those three; no other call changes the edge  *)
(* list; footer writes one line per edge, in recording order.                *)
C8_Edges == []C8_Flushed /\ [][C8_Recorded]_vars

C8_Witness ==
    /\ kind = Base
    /\ pc = "done"
    /\ \E r \in rendered : r[1] = Class_B.classname
    /\ inherit_relations = ExpectedEdges(Class_C)
    /\ Len(footer_dest) = 2

-----------------------------------------------------------------------------
(* One file with one class: do_file, the tree visitor reporting the class *)

ClassNames == {<<"A">>, <<"I", "a">>, <<"A", "I">>}

BaseExprs == {S_object, S_ABC, S_Enum, <<"m", ".", "B">>}

RECURSIVE SeqsUpTo(_, _)
SeqsUpTo(S, n) ==
    IF n = 0 THEN {<<>>}
    ELSE SeqsUpTo(S, n - 1)
         \cup {Append(q, x) : q \in {r \in SeqsUpTo(S, n - 1) : Len(r) = n - 1},
                              x \in S}

MethodLists ==
    {<<>>,
     <<M_prop_int, M_setter, M_plain>>,
     <<M_plain, M_prop_none, M_init>>,
     <<M_static, M_noargs>>,
     <<M_cached, M_prop_int>>,
     <<M_init, M_setter, M_prop_none>>}

MemberLists == {<<>>, <<<<"_", "x">>, <<"y">>>>}

ClassDescs ==
    {[classname |-> n, bases |-> b, classvars |-> IF ms = <<>> THEN <<>> ELSE <<<<"_", "_", "k">>>>,
      members |-> ms, methods |-> l] :
         n \in ClassNames, b \in SeqsUpTo(BaseExprs, MaxBases),
         ms \in MemberLists, l \in MethodLists}

ClassConfigs ==
    {NoConfig,
     [NoConfig EXCEPT !.present = TRUE],
     [NoConfig EXCEPT !.present = TRUE, !.omit_self = TRUE,
                      !.builtin_types = <<<<"i", "n", "t">>>>],
     [NoConfig EXCEPT !.present = TRUE, !.methods_write_arglist = FALSE,
                      !.methods_omit_defaults = TRUE,
                      !.builtin_types = <<<<"s", "t", "r">>, <<"N", "o", "n", "e">>>>]}

ClassFiles == {File_ab}

InitClass ==
    /\ kind \in {Base, NS}
    /\ config \in ClassConfigs
    /\ fdef = <<>>
    /\ Constructed

DoFile(f, c) ==
    /\ pc = "run"
    /\ ncalls = 0
    /\ LET s1 == start_file(Self, FilePath(f))
           s2 == print_classinfo(s1, c)
           s3 == IF s2.exc THEN s2 ELSE end_file(s2)
       IN  /\ Store(s3)
           /\ pc' = IF s3.exc THEN "crashed" ELSE pc
           /\ mark' = [dest |-> Len(s1.dest), footer_dest |-> Len(s1.footer_dest),
                       relations |-> Len(s1.inherit_relations),
                       namespaces |-> s1.namespaces]
    /\ call' = [op |-> "print_classinfo", arg |-> c]
    /\ ncalls' = ncalls + 1
    /\ curfile' = <<f>>
    /\ rendered' = rendered \cup {<<c.classname, IF kind = NS
                                     THEN full_ns(FileSegments(f)) ELSE <<>>>>}
    /\ UNCHANGED <<kind, config, root, fidx, late, fdef, ret>>

NextClass == \E f \in ClassFiles : \E c \in ClassDescs : DoFile(f, c)

SpecClass == InitClass /\ [][NextClass]_vars

(* the lines print_classinfo wrote in the last call, without indentation *)
Block == Lines(SubSeq(dest, mark.dest + 1, Len(dest)))

BlockOpening(prefix, classname) ==
    prefix \o <<" ">> \o classname \o <<" ", "{", "\n">>

Printed == call.op = "print_classinfo"

OnlyObject(bases) == \A i \in 1..Len(bases) : bases[i] = S_object

(* C6 as stated: bases empty or only object give the prefix class *)
C6_PlainClass ==
    (Printed /\ OnlyObject(call.arg.bases)) =>
        Block[1] = BlockOpening(S_class, call.arg.classname)

(* C6, amended: for a class whose bases are empty or only object, the       *)
(* prefix is class when the name does not begin with I, and interface when  *)
(* it does.                                                                 *)
C6_PlainClassUnlessI ==
    (Printed /\ OnlyObject(call.arg.bases)) =>
        Block[1] = BlockOpening(IF Head(call.arg.classname) = "I"
                                THEN S_interface ELSE S_class,
                                call.arg.classname)

C6_Witness ==
    /\ Printed
    /\ call.arg.bases = <<S_object>>
    /\ Head(call.arg.classname) # "I"
    /\ Contains(call.arg.classname, <<"I">>)
    /\ Len(Block) >= 2

HasBase(bases, expr) == \E i \in 1..Len(bases) : bases[i] = expr

(* C7 as stated: an ABC base gives abstract class whatever the other bases, *)
(* and interface when the name begins with I                                *)
C7_AbstractWins ==
    (Printed /\ HasBase(call.arg.bases, S_ABC)) =>
        Block[1] = BlockOpening(IF Head(call.arg.classname) = "I"
                                THEN S_interface ELSE S_abstract_class,
                                call.arg.classname)

(* an Enum base is declared after the last ABC base *)
EnumAfterABC(bases) ==
    \E j \in 1..Len(bases) :
        /\ bases[j] = S_Enum
        /\ \A i \in (j + 1)..Len(bases) : bases[i] # S_ABC

(* C7, amended: for a class with an ABC base the prefix is abstract class   *)
(* whatever bases other than Enum are declared, in whatever order; an Enum  *)
(* base declared after the last ABC base makes it enum; a name beginning    *)
(* with I makes it interface whatever the bases.                            *)
C7_LastMarkerWins ==
    (Printed /\ HasBase(call.arg.bases, S_ABC)) =>
        Block[1] = BlockOpening(IF Head(call.arg.classname) = "I"
                                THEN S_interface
                                ELSE IF EnumAfterABC(call.arg.bases)
                                THEN S_enum ELSE S_abstract_class,
                                call.arg.classname)

C7_Witness ==
    /\ Printed
    /\ Len(call.arg.bases) >= 2
    /\ call.arg.bases[1] = S_ABC
    /\ ~IsMarkerBase(call.arg.bases[2])
    /\ Head(call.arg.classname) # "I"
    /\ Len(Block) >= 2

-----------------------------------------------------------------------------
(* The lines of a class block, told apart by their shape *)

StartsWith(x, p) == Len(x) >= Len(p) /\ SubSeq(x, 1, Len(p)) = p

IsStaticLine(x) == StartsWith(x, TAB \o S_static_marker)

IsMethodLine(x) == ~IsStaticLine(x) /\ Contains(x, <<"(">>)

IsFieldLine(x) ==
    ~IsStaticLine(x) /\ ~IsMethodLine(x) /\ Contains(x, <<" ", ":", " ">>)

Rank(x) ==
    IF IsStaticLine(x) THEN 1
    ELSE IF IsMethodLine(x) THEN 4
    ELSE IF IsFieldLine(x) THEN 3
    ELSE 2

(* the lines between the opening line and the closing line *)
Body == SubSeq(Block, 2, Len(Block) - 1)

IsProperty(m) ==
    \E i \in 1..Len(m.decorator_list) : m.decorator_list[i].name = S_property

IsSetter(m) ==
    \E i \in 1..Len(m.decorator_list) : m.decorator_list[i].name = S_setter

FieldLine(m) ==
    TAB \o <<"+">> \o m.name \o <<" ", ":", " ">>
    \o (IF m.returns = <<>> THEN S_None ELSE m.returns[1]) \o NL

Allowlisted(m) ==
    /\ config.present
    /\ \E i \in 1..Len(config.builtin_types) :
           config.builtin_types[i] = IF m.returns = <<>> THEN S_None
                                     ELSE m.returns[1]

HasMethodLine(m) ==
    \E i \in 1..Len(Body) :
        IsMethodLine(Body[i]) /\ Contains(Body[i], m.name \o <<"(">>)

HasFieldLine(m) == \E i \in 1..Len(Body) : Body[i] = FieldLine(m)

(* C10: in a class block that print_classinfo completed, the lines come in  *)
(* the order static members, instance members, property fields, methods; a  *)
(* method with a property or setter decorator has no line among the         *)
(* methods; a property has a typed-field line exactly when its return type, *)
(* None when absent, is in the configured allowlist; without configuration  *)
(* a property or a setter has no line in the block.                         *)
C10_BlockOrder ==
    (Printed /\ pc = "run") =>
        LET c == call.arg
            props == {i \in 1..Len(c.methods) :
                          IsProperty(c.methods[i]) \/ IsSetter(c.methods[i])}
        IN  /\ Last(Block) = <<"}", "\n", "\n">>
            /\ \A i \in 1..Len(Body) : \A j \in i..Len(Body) :
                   Rank(Body[i]) <= Rank(Body[j])
            /\ Count(Body, IsStaticLine) = Len(c.classvars)
            /\ Count(Body, LAMBDA x : Rank(x) = 2) = Len(c.members)
            /\ \A i \in props : ~HasMethodLine(c.methods[i])
            /\ \A i \in 1..Len(c.methods) :
                   IsProperty(c.methods[i]) =>
                       (HasFieldLine(c.methods[i]) <=> Allowlisted(c.methods[i]))
            /\ ~config.present =>
                   /\ Count(Body, IsFieldLine) = 0
                   /\ Len(Body) <= Len(c.classvars) + Len(c.members)
                                   + Len(c.methods) - Cardinality(props)

C10_Witness ==
    /\ Printed
    /\ pc = "run"
    /\ call.arg.methods = <<M_prop_int, M_setter, M_plain>>
    /\ HasFieldLine(M_prop_int)
    /\ HasMethodLine(M_plain)
    /\ Count(Body, IsStaticLine) = 1
    /\ Count(Body, LAMBDA x : Rank(x) = 2) = 2

-----------------------------------------------------------------------------
(* arglist, called on its own *)

ArgLists ==
    {[args |-> <<>>, defaults |-> <<>>],
     [args |-> <<S_self>>, defaults |-> <<>>],
     [args |-> <<S_self, <<"x">>>>, defaults |-> <<>>],
     [args |-> <<S_self, <<"x">>>>, defaults |-> <<<<"1">>>>],
     [args |-> <<<<"m", "e">>, <<"y">>>>, defaults |-> <<>>],
     [args |-> <<<<"x">>, <<"y">>>>, defaults |-> <<<<"1">>, <<"2">>>>]}

DecoratorLists ==
    {<<>>, <<Dec_staticmethod>>, <<Dec_attr_staticmethod>>,
     <<Dec_abstractmethod, Dec_staticmethod>>, <<Dec_property>>}

ArgDescs ==
    {[name |-> <<"f">>, decorator_list |-> d, args |-> a, returns |-> <<>>] :
         d \in DecoratorLists, a \in ArgLists}

ArgConfigs ==
    {NoConfig}
    \cup {[NoConfig EXCEPT !.present = TRUE, !.omit_self = o,
                           !.methods_write_arglist = w,
                           !.methods_omit_defaults = d] :
              o \in BOOLEAN, w \in BOOLEAN, d \in BOOLEAN}

InitArg ==
    /\ kind = Base
    /\ config \in ArgConfigs
    /\ fdef \in ArgDescs
    /\ Constructed

Arglist(ismethod) ==
    /\ pc = "run"
    /\ ret = <<>>
    /\ LET r == arglist(fdef, ismethod)
       IN  /\ ret' = <<[ismethod |-> ismethod, exc |-> r.exc,
                        warned |-> r.warned, val |-> r.val]>>
           /\ fdef' = r.fdef
    /\ call' = [op |-> "arglist", arg |-> fdef]
    /\ ncalls' = ncalls + 1
    /\ UNCHANGED <<kind, config, root, dest, footer_dest, in_footer, sourcename,
                   class_in_module, inherit_relations, namespaces, pc, fidx,
                   mark, curfile, rendered, late>>

NextArg == \E ismethod \in BOOLEAN : Arglist(ismethod)

SpecArg == InitArg /\ [][NextArg]_vars

RECURSIVE LStrip(_)
LStrip(x) == IF x # <<>> /\ Head(x) = " " THEN LStrip(Tail(x)) ELSE x

(* the parameter names in a rendered argument list *)
ParamNames(text) ==
    IF text = <<>> THEN <<>>
    ELSE LET parts == Split(text, ",")
         IN  [i \in 1..Len(parts) |-> Split(LStrip(parts[i]), "=")[1]]

ExactlyStatic(m) ==
    \E i \in 1..Len(m.decorator_list) :
        /\ m.decorator_list[i].type = "Name"
        /\ m.decorator_list[i].name = S_staticmethod

(* C9: with argument lists and omit-self enabled, arglist(m, ismethod=True) *)
(* renders the parameters of m without the first one when m is not static   *)
(* and has a parameter, whatever its name, a name other than self only      *)
(* giving a warning; it renders all of them when m has an exact             *)
(* staticmethod decorator or ismethod is false; and the descriptor m is     *)
(* left as it was in every case.                                            *)
C9_OmitSelf ==
    ret # <<>> =>
        LET r == ret[1]
            m == call.arg
            drops == r.ismethod /\ ~ExactlyStatic(m)
        IN  /\ fdef = m
            /\ (config.present /\ config.omit_self
                /\ (~r.ismethod \/ config.methods_write_arglist)) =>
                   /\ r.exc <=> (drops /\ m.args.args = <<>>)
                   /\ ~r.exc =>
                          ParamNames(r.val) = IF drops THEN Tail(m.args.args)
                                              ELSE m.args.args
                   /\ r.warned <=> (drops /\ m.args.args # <<>>
                                    /\ Head(m.args.args) # S_self)

C9_Witness ==
    /\ ret # <<>>
    /\ ret[1].ismethod
    /\ ret[1].warned
    /\ config.present /\ config.omit_self /\ config.methods_write_arglist
    /\ call.arg.decorator_list = <<Dec_attr_staticmethod>>
    /\ ParamNames(ret[1].val) = Tail(call.arg.args.args)
    /\ Len(call.arg.args.args) = 2

====
